---- MODULE Spec2Model ----
(***************************************************************************)
(* The streaming capture session of components/RealTimeFaceVerification    *)
(* and components/RealTimeFaceRegistration: one React component that owns  *)
(* a media stream, a WebSocket, a capture interval, a heartbeat interval,  *)
(* a per-socket connect timeout and a reconnect timeout.                   *)
(*                                                                         *)
(* React semantics that the model keeps:                                   *)
(*  - useState values live in the record st; a setter called after the     *)
(*    component was unmounted changes nothing;                             *)
(*  - useRef cells are plain variables (wsRef, streamRef, ...);            *)
(*  - connectWebSocket is a useCallback over (success, retryCount): every  *)
(*    socket's handlers, and the reconnect timer they arm, read the values *)
(*    of the render in which the user pressed the button (cSuccess,        *)
(*    cRetryCount), not the current state.                                 *)
(* WebSocket semantics that the model keeps: send() throws while the       *)
(* socket is CONNECTING and is dropped silently once it is CLOSING or      *)
(* CLOSED; close() moves CONNECTING/OPEN to CLOSING and the close event    *)
(* follows later; no message event is delivered unless the socket is OPEN. *)
(***************************************************************************)
EXTENDS Integers, Sequences, FiniteSets, TLC

\* ------------------------------------------------------------ constants
MAX_RETRIES == 3

\* bounds of the model
MaxSockets == 2          \* WebSocket objects not yet closed, at any one time
MaxReconnectTimers == 2  \* reconnect timeouts pending at any one time
MaxRetryCount == 4       \* the retryCount state is not counted beyond this
MaxPendingStarts == 1    \* handleStart calls awaiting the camera
MaxClicks == 2           \* button presses of the user
MaxLeakedStreams == 1
MaxCalls == 2            \* onSuccess/onError calls are not counted beyond this
MaxFramesSent == 2       \* frames sent while the metrics are observed
MaxTime == 1             \* Date.now() is drawn from 1..MaxTime, and the
                         \* timestamp of a pong from 0..MaxTime + 1
MaxMetricsSockets == 1   \* sockets not yet closed in the runs of MetricsSpec
MaxMetricsRetries == 1   \* retryCount in the runs of MetricsSpec
MaxFramesCollected == 2  \* frames_collected of a 'frame_processed' is drawn
                         \* from 1..MaxFramesCollected

Kinds == {"verification", "registration"}
\* codes the close event can carry, by the state the socket was in: a
\* connection that failed closes with 1006, a socket the client closed with
\* the code of its close() or 1006, an open one with whatever the server sent
ConnectFailCodes == {1006}
ClientCloseCodes == {1000} \cup ConnectFailCodes
CloseCodes == ClientCloseCodes \cup {4003, 4004}

\* null, where the code holds a message or null
Null == [type |-> "null"]
SockIds == 1..MaxSockets

\* ------------------------------------------------------------ state
VARIABLES
    kind,                 \* which of the two components this is
    mounted,              \* the component is mounted (videoRef/canvasRef set)
    st,                   \* the useState cells
    wsRef,                \* wsRef.current: 0 (null) or a socket id
    streamRef,            \* streamRef.current holds a live MediaStream
    leakedStreams,        \* live MediaStreams no ref points to any more
    videoSrc,             \* video.srcObject: "none", "live" or "ended"
    intervalRef,          \* intervalRef.current is non-null
    captureTimers,        \* number of live capture intervals
    heartbeatRef,         \* heartbeatRef.current is non-null
    heartbeatTimers,      \* number of live heartbeat intervals
    reconnectTimeoutRef,  \* reconnectTimeoutRef.current: 0 or a timer id
    reconnectTimers,      \* pending reconnect timeouts: [id, closure values]
    sockets,              \* the WebSockets the component created, by slot
    pendingStarts,        \* handleStart calls awaiting getUserMedia
    clicks,               \* how many buttons the user has pressed
    metrics,              \* the useState cells that only the render reads
    hist,                 \* history of the session (what the caller saw)
    last                  \* what the last step did (its observable effects)

vars == <<kind, mounted, st, wsRef, streamRef, leakedStreams, videoSrc,
          intervalRef, captureTimers, heartbeatRef, heartbeatTimers,
          reconnectTimeoutRef, reconnectTimers, sockets,
          pendingStarts, clicks, metrics, hist, last>>

\* useState defaults (Verification.tsx 32-56)
InitialState ==
    [isStreaming |-> FALSE, isConnected |-> FALSE,
     connectionState |-> "disconnected", error |-> FALSE, success |-> FALSE,
     verificationResult |-> Null, retryCount |-> 0, canRetry |-> TRUE]

\* The metric cells are written by the handlers and read by the render
\* alone, never by a handler's condition (maxSimilarity is read only to
\* update itself), and each is written independently of the others. Spec
\* therefore leaves them out (observed = {}: their setters are skipped);
\* MetricsSpec follows one group of cells at a time. A number-or-null cell
\* is <<>> for null and <<n>> for the number n.
DefaultMetrics ==
    [framesSent |-> 0, framesCollected |-> 0, qualityScore |-> <<>>,
     maxSimilarity |-> <<>>, networkLatency |-> <<>>]

\* the groups of cells MetricsSpec follows, one group in each run
MetricGroups ==
    {{"framesSent"},
     {"framesCollected", "qualityScore"},
     {"maxSimilarity"},
     {"networkLatency"}}

\* a socket whose close event was delivered: nothing can happen on it again,
\* and its slot is free for the next new WebSocket
ClosedSocket ==
    [readyState |-> "CLOSED",      \* ws.readyState
     cSuccess |-> FALSE,           \* success, as its handlers captured it
     cRetryCount |-> 0,            \* retryCount, as its handlers captured it
     cMaxSimilarity |-> <<>>,      \* maxSimilarity, as they captured it
     connectionTimeout |-> FALSE,  \* its connect timeout is pending
     gotFrame |-> FALSE]           \* the server received a frame on it

NoEffects ==
    [stop |-> FALSE,      \* handleStop or the unmount cleanup ran
     ws |-> 0,            \* wsRef.current when it ran
     completion |-> Null, \* the completion message delivered to onmessage
     code |-> 0,          \* the code of the close event delivered to onclose
     sent |-> {},         \* types of the messages handed to an open socket
     closed |-> {},       \* <<socket, code>> of every close() that took effect
     created |-> 0,       \* the socket made by new WebSocket
     released |-> 0,      \* streams whose tracks were stopped
     scheduled |-> FALSE, \* a reconnect timeout was armed
     timer |-> "none",    \* the timer whose callback ran
     onSuccess |-> <<>>,  \* arguments of the calls of props.onSuccess
     onError |-> 0,       \* calls of props.onError
     threw |-> FALSE,     \* send() threw (and the catch swallowed it)
     restart |-> <<>>,    \* handleRestart ran: <<retryCount and the metric
                          \* cells as it found them>>
     pong |-> <<>>,       \* a 'pong' was handled: <<its timestamp, Date.now()>>
     acquired |-> "none", \* getUserMedia gave a stream to the handleStart
                          \* called by this handler: "start" or "restart"
     cameraFailed |-> FALSE, \* getUserMedia rejected (every constraint set)
     decode |-> FALSE,    \* the payload delivered to onmessage was not
                          \* JSON or of a type that no case matches
     raised |-> FALSE,    \* an exception left the handler
     message |-> "none",  \* the type of the message delivered to onmessage
     found |-> <<>>,      \* 'verification_restarted' was handled: <<the
                          \* metric cells as it found them>>
     encoding |-> 0]      \* encodes of captureAndSendFrame that the handler
                          \* started and left unfinished when it returned

NoHistory ==
    [stopped |-> FALSE,   \* stopStreaming returned (handleStop, the unmount
                          \* cleanup or a completion) with no handleStart
                          \* still awaiting the camera
     signals |-> 0]       \* calls of onSuccess and onError so far

\* the whole mutable world as one record, so that handlers compose
Env ==
    [kind |-> kind, mounted |-> mounted, st |-> st, wsRef |-> wsRef,
     streamRef |-> streamRef, leakedStreams |-> leakedStreams,
     videoSrc |-> videoSrc, intervalRef |-> intervalRef,
     captureTimers |-> captureTimers, heartbeatRef |-> heartbeatRef,
     heartbeatTimers |-> heartbeatTimers,
     reconnectTimeoutRef |-> reconnectTimeoutRef,
     reconnectTimers |-> reconnectTimers, sockets |-> sockets,
     pendingStarts |-> pendingStarts, clicks |-> clicks,
     metrics |-> metrics, hist |-> hist,
     fx |-> NoEffects]

Commit(e) ==
    /\ kind' = e.kind
    /\ mounted' = e.mounted
    /\ st' = e.st
    /\ wsRef' = e.wsRef
    /\ streamRef' = e.streamRef
    /\ leakedStreams' = e.leakedStreams
    /\ videoSrc' = e.videoSrc
    /\ intervalRef' = e.intervalRef
    /\ captureTimers' = e.captureTimers
    /\ heartbeatRef' = e.heartbeatRef
    /\ heartbeatTimers' = e.heartbeatTimers
    /\ reconnectTimeoutRef' = e.reconnectTimeoutRef
    /\ reconnectTimers' = e.reconnectTimers
    /\ sockets' = e.sockets
    /\ pendingStarts' = e.pendingStarts
    /\ clicks' = e.clicks
    /\ metrics' = e.metrics
    /\ hist' = e.hist
    /\ last' = e.fx

Init ==
    /\ kind \in Kinds
    /\ mounted = TRUE
    /\ st = InitialState
    /\ wsRef = 0
    /\ streamRef = FALSE
    /\ leakedStreams = 0
    /\ videoSrc = "none"
    /\ intervalRef = FALSE
    /\ captureTimers = 0
    /\ heartbeatRef = FALSE
    /\ heartbeatTimers = 0
    /\ reconnectTimeoutRef = 0
    /\ reconnectTimers = {}
    /\ sockets = [s \in SockIds |-> ClosedSocket]
    /\ pendingStarts = <<>>
    /\ clicks = 0
    /\ metrics = [observed |-> {}, cells |-> DefaultMetrics]
    /\ hist = NoHistory
    /\ last = NoEffects

\* ------------------------------------------------------------ helpers
Min(a, b) == IF a < b THEN a ELSE b
Max(a, b) == IF a > b THEN a ELSE b

\* a useState setter: ignored once the component is unmounted
setState(e, new) == IF e.mounted THEN [e EXCEPT !.st = new] ELSE e

\* the setters of the metric cells: new holds the cells after the update
setMetrics(e, new) ==
    IF e.mounted
    THEN [e EXCEPT !.metrics.cells =
                       [k \in DOMAIN new |->
                           IF k \in e.metrics.observed THEN new[k] ELSE @[k]]]
    ELSE e

\* WebSocket.send(type) on socket s
wsSend(e, s, type) ==
    LET rs == e.sockets[s].readyState IN
    IF rs = "CONNECTING" THEN [e EXCEPT !.fx.threw = TRUE]
    ELSE IF rs = "OPEN" THEN [e EXCEPT !.fx.sent = @ \cup {type}]
    ELSE e

\* WebSocket.close(code) on socket s; code 0 stands for close() without one
wsClose(e, s, code) ==
    IF e.sockets[s].readyState \in {"CONNECTING", "OPEN"}
    THEN [e EXCEPT !.sockets[s].readyState = "CLOSING",
                   !.fx.closed = @ \cup {<<s, code>>}]
    ELSE e

onSuccess(e, message) ==
    [e EXCEPT !.fx.onSuccess = Append(@, message),
              !.hist.signals = Min(@ + 1, MaxCalls)]

onError(e) ==
    [e EXCEPT !.fx.onError = @ + 1,
              !.hist.signals = Min(@ + 1, MaxCalls)]

\* ------------------------------------------------------------ timers
\* a plausible slip: the interval is armed without clearing the one in the ref
startHeartbeatNoClear(e) ==
    [e EXCEPT !.heartbeatTimers = @ + 1, !.heartbeatRef = TRUE]

startHeartbeat(e) ==
    LET cleared == IF e.heartbeatRef
                   THEN [e EXCEPT !.heartbeatTimers = @ - 1]
                   ELSE e
    IN [cleared EXCEPT !.heartbeatTimers = @ + 1, !.heartbeatRef = TRUE]

stopHeartbeat(e) ==
    IF e.heartbeatRef
    THEN [e EXCEPT !.heartbeatTimers = @ - 1, !.heartbeatRef = FALSE]
    ELSE e

startFrameCapture(e) ==
    IF ~e.intervalRef
    THEN [e EXCEPT !.captureTimers = @ + 1, !.intervalRef = TRUE]
    ELSE e

\* a plausible slip: the tick is counted before the transport is looked at
captureAndSendFrameCountTicks(e, hasFrame) ==
    LET e1 == setMetrics(e, [e.metrics.cells EXCEPT !.framesSent = @ + 1])
    IN IF \/ ~e.mounted
          \/ e.wsRef = 0
          \/ e.sockets[e.wsRef].readyState # "OPEN"
       THEN e1
       ELSE IF e.videoSrc = "none" \/ ~hasFrame
       THEN e1
       ELSE [wsSend(e1, e.wsRef, "frame") EXCEPT
                !.sockets[e.wsRef].gotFrame = TRUE]

\* a plausible slip: the frame is encoded with the asynchronous
\* canvas.toBlob, and sent by its callback after the handler has returned
captureAndSendFrameToBlob(e, hasFrame) ==
    IF \/ ~e.mounted
       \/ e.wsRef = 0
       \/ e.sockets[e.wsRef].readyState # "OPEN"
    THEN e
    ELSE IF e.videoSrc = "none" \/ ~hasFrame
    THEN e
    ELSE [e EXCEPT !.fx.encoding = @ + 1]

\* videoWidth/videoHeight of the <video>: 0 before any stream was attached;
\* with a stream attached the metadata may or may not be there (hasFrame)
captureAndSendFrame(e, hasFrame) ==
    IF \/ ~e.mounted
       \/ e.wsRef = 0
       \/ e.sockets[e.wsRef].readyState # "OPEN"
    THEN e
    ELSE IF e.videoSrc = "none" \/ ~hasFrame
    THEN e
    ELSE LET sent == [wsSend(e, e.wsRef, "frame") EXCEPT
                         !.sockets[e.wsRef].gotFrame = TRUE]
         IN setMetrics(sent, [sent.metrics.cells EXCEPT !.framesSent = @ + 1])

\* ------------------------------------------------------------ teardown
clearInterval(e) ==
    IF e.intervalRef
    THEN [e EXCEPT !.captureTimers = @ - 1, !.intervalRef = FALSE]
    ELSE e

clearReconnectTimeout(e) ==
    IF e.reconnectTimeoutRef # 0
    THEN [e EXCEPT !.reconnectTimers =
                       {t \in @ : t.id # e.reconnectTimeoutRef},
                   !.reconnectTimeoutRef = 0]
    ELSE e

\* try { send(stop); close(1000, 'User stopped') } catch {}; wsRef = null
closeSocket(e) ==
    IF e.wsRef # 0
    THEN LET sent == wsSend(e, e.wsRef, "stop")
             done == IF sent.fx.threw THEN sent
                     ELSE wsClose(sent, e.wsRef, 1000)
         IN [done EXCEPT !.wsRef = 0]
    ELSE e

releaseStream(e) ==
    IF e.streamRef
    THEN [e EXCEPT !.streamRef = FALSE, !.fx.released = @ + 1,
                   !.videoSrc = IF @ = "live" THEN "ended" ELSE @]
    ELSE e

stopStreaming(e) ==
    LET e1 == clearInterval(e)
        e2 == stopHeartbeat(e1)
        e3 == clearReconnectTimeout(e2)
        e4 == closeSocket(e3)
        e5 == releaseStream(e4)
    IN setState(e5, [e5.st EXCEPT !.isStreaming = FALSE,
                                  !.isConnected = FALSE,
                                  !.connectionState = "disconnected"])

\* ------------------------------------------------------------ connect
FreeSlots(e) == {s \in SockIds : e.sockets[s].readyState = "CLOSED"}
FreeSlot(e) == CHOOSE s \in FreeSlots(e) : \A o \in FreeSlots(e) : s <= o

\* c is the closure of the render that called it: [cSuccess, cRetryCount,
\* cMaxSimilarity]
connectWebSocket(e, c) ==
    LET e1 == IF e.wsRef # 0 THEN wsClose(e, e.wsRef, 0) ELSE e
        e2 == setState(e1, [e1.st EXCEPT !.connectionState = "connecting",
                                         !.error = FALSE])
        n == FreeSlot(e)
    IN [e2 EXCEPT !.sockets[n] = [readyState |-> "CONNECTING",
                                  cSuccess |-> c.cSuccess,
                                  cRetryCount |-> c.cRetryCount,
                                  cMaxSimilarity |-> c.cMaxSimilarity,
                                  connectionTimeout |-> TRUE,
                                  gotFrame |-> FALSE],
                  !.wsRef = n,
                  !.fx.created = n]

\* the setTimeout of connectWebSocket, for socket s
connectionTimeout(e, s) ==
    LET e1 == [e EXCEPT !.sockets[s].connectionTimeout = FALSE,
                        !.fx.timer = "connectionTimeout"]
    IN IF e.sockets[s].readyState = "CONNECTING"
       THEN LET e2 == wsClose(e1, s, 0)
            IN setState(e2, [e2.st EXCEPT !.error = TRUE,
                                          !.connectionState = "disconnected"])
       ELSE e1

onopen(e, s) ==
    LET e1 == [e EXCEPT !.sockets[s].readyState = "OPEN",
                        !.sockets[s].connectionTimeout = FALSE]
        e2 == setState(e1, [e1.st EXCEPT !.isConnected = TRUE,
                                         !.connectionState = "connected",
                                         !.retryCount = 0])
    IN startHeartbeat(e2)

onerror(e, s) ==
    LET e1 == [e EXCEPT !.sockets[s].connectionTimeout = FALSE]
    IN setState(e1, [e1.st EXCEPT !.error = TRUE,
                                  !.connectionState = "disconnected"])

\* the codes after which onclose gives up at once
TerminalCodes(k) == IF k = "verification" THEN {4004, 4003} ELSE {4004}

TimerIds == 1..MaxReconnectTimers
FreeTimers(e) == TimerIds \ {t.id : t \in e.reconnectTimers}
FreeTimer(e) == CHOOSE i \in FreeTimers(e) : \A o \in FreeTimers(e) : i <= o

\* the branch of onclose that arms the reconnect timeout is taken
retries(e, s, code) ==
    /\ code \notin TerminalCodes(e.kind)
    /\ ~e.sockets[s].cSuccess
    /\ e.sockets[s].cRetryCount < MAX_RETRIES

\* a plausible slip: the retry branch is tested before the terminal codes
oncloseRetryFirst(e, s, code) ==
    LET c == e.sockets[s]
        e1 == [e EXCEPT !.sockets[s] = ClosedSocket, !.fx.code = code]
        e2 == setState(e1, [e1.st EXCEPT !.isConnected = FALSE,
                                         !.isStreaming = FALSE])
        e3 == stopHeartbeat(e2)
    IN IF ~c.cSuccess /\ c.cRetryCount < MAX_RETRIES /\ FreeTimers(e) # {}
       THEN LET e4 == setState(e3, [e3.st EXCEPT
                                       !.connectionState = "reconnecting"])
            IN [e4 EXCEPT !.reconnectTimers =
                              @ \cup {[id |-> FreeTimer(e),
                                       cRetryCount |-> c.cRetryCount,
                                       cMaxSimilarity |-> c.cMaxSimilarity]},
                          !.reconnectTimeoutRef = FreeTimer(e),
                          !.fx.scheduled = TRUE]
       ELSE IF code \in TerminalCodes(e.kind)
       THEN setState(e3, [e3.st EXCEPT !.error = TRUE,
                                       !.connectionState = "disconnected"])
       ELSE setState(e3, [e3.st EXCEPT !.connectionState = "disconnected"])

onclose(e, s, code) ==
    LET c == e.sockets[s]
        e1 == [e EXCEPT !.sockets[s] = ClosedSocket, !.fx.code = code]
        e2 == setState(e1, [e1.st EXCEPT !.isConnected = FALSE,
                                         !.isStreaming = FALSE])
        e3 == stopHeartbeat(e2)
    IN IF code \in TerminalCodes(e.kind)
       THEN setState(e3, [e3.st EXCEPT !.error = TRUE,
                                       !.connectionState = "disconnected"])
       ELSE IF retries(e, s, code)
       THEN LET e4 == setState(e3, [e3.st EXCEPT
                                       !.connectionState = "reconnecting"])
            IN [e4 EXCEPT !.reconnectTimers =
                              @ \cup {[id |-> FreeTimer(e),
                                       cRetryCount |-> c.cRetryCount,
                                       cMaxSimilarity |-> c.cMaxSimilarity]},
                          !.reconnectTimeoutRef = FreeTimer(e),
                          !.fx.scheduled = TRUE]
       ELSE setState(e3, [e3.st EXCEPT !.connectionState = "disconnected"])

\* the callback of the reconnect setTimeout t
reconnect(e, t) ==
    LET e1 == [e EXCEPT !.reconnectTimers = @ \ {t},
                        !.fx.timer = "reconnect"]
        e2 == setState(e1, [e1.st EXCEPT !.retryCount = @ + 1])
    IN connectWebSocket(e2, [cSuccess |-> FALSE,
                             cRetryCount |-> t.cRetryCount,
                             cMaxSimilarity |-> t.cMaxSimilarity])

\* ------------------------------------------------------------ messages
\* what the server can send, reduced to the fields the handlers read;
\* 'heartbeat' only feeds the console and is left out, 'pong' is WsPong
\* payloads that are not JSON ("malformed") or carry a type no case matches
Undecodable == {[type |-> "malformed"], [type |-> "unknown"]}

\* the messages that answer a frame: the server sends them on a socket only
\* after a frame reached it
FrameReplies(k) ==
    {[type |-> "frame_processed", success |-> TRUE, frames_collected |-> n,
      quality_score |-> 80, similarity_score |-> v] :
         n \in 1..MaxFramesCollected, v \in {40, 60}}
    \cup {[type |-> "frame_processed", success |-> FALSE]}
    \cup {[type |-> "spoofing_detected", can_retry |-> b] : b \in BOOLEAN}
    \cup (IF k = "verification"
          THEN {[type |-> "complete", verified |-> TRUE,
                 similarity_score |-> 60, max_similarity_score |-> 60,
                 quality_score |-> 80],
                [type |-> "complete", verified |-> FALSE,
                 similarity_score |-> 40, max_similarity_score |-> 40,
                 quality_score |-> 80]}
          ELSE {[type |-> "complete", verified |-> TRUE,
                 similarity_score |-> 0]})

Messages(k) ==
    {[type |-> "connected"]}
    \cup Undecodable
    \cup FrameReplies(k)
    \cup {[type |-> "error", can_retry |-> b] : b \in BOOLEAN}
    \cup {[type |-> "timeout_warning", can_retry |-> b] : b \in BOOLEAN}
    \cup (IF k = "verification"
          THEN {[type |-> "verification_restarted"]}
          ELSE {})

\* a plausible slip: a message that forbids the retry also stops the stream
setCanRetryOrStop(e, m) ==
    IF e.kind = "verification"
    THEN LET e1 == setState(e, [e.st EXCEPT !.canRetry = m.can_retry])
         IN IF m.can_retry THEN e1 ELSE stopStreaming(e1)
    ELSE e

\* setCanRetry(message.can_retry !== false): only the verification component
setCanRetry(e, m) ==
    IF e.kind = "verification"
    THEN setState(e, [e.st EXCEPT !.canRetry = m.can_retry])
    ELSE e

\* the metric cells set by case 'frame_processed' with message.success; the
\* best score is compared with the maxSimilarity the handler captured
frame_processed(e, s, m) ==
    LET c == e.sockets[s].cMaxSimilarity
        e1 == setMetrics(e, [e.metrics.cells EXCEPT
                                !.framesCollected = m.frames_collected,
                                !.qualityScore = <<m.quality_score>>])
    IN IF /\ e.kind = "verification"
          /\ (c = <<>> \/ m.similarity_score > c[1])
       THEN setMetrics(e1, [e1.metrics.cells EXCEPT
                               !.maxSimilarity = <<m.similarity_score>>])
       ELSE e1

\* case 'pong': Date.now() is now; timestamp 0 stands for a missing one
pong(e, timestamp, now) ==
    IF timestamp # 0
    THEN setMetrics(e, [e.metrics.cells EXCEPT
                           !.networkLatency = <<now - timestamp>>])
    ELSE e

\* a plausible slip: the callback of a rejected verification goes to onError
completeVerifiedOnly(e, m) ==
    LET e1 == setState(e, [e.st EXCEPT !.success = TRUE,
                                       !.verificationResult = m])
        e2 == IF e.kind = "verification"
              THEN setMetrics(e1, [e1.metrics.cells EXCEPT
                                      !.maxSimilarity =
                                          <<m.max_similarity_score>>,
                                      !.qualityScore = <<m.quality_score>>])
              ELSE e1
    IN IF m.verified THEN onSuccess(stopStreaming(e2), m)
       ELSE onError(stopStreaming(e2))

\* case 'verification_complete' / 'registration_complete' of onmessage
complete(e, m) ==
    LET e1 == setState(e, [e.st EXCEPT !.success = TRUE,
                                       !.verificationResult = m])
        e2 == IF e.kind = "verification"
              THEN setMetrics(e1, [e1.metrics.cells EXCEPT
                                      !.maxSimilarity =
                                          <<m.max_similarity_score>>,
                                      !.qualityScore = <<m.quality_score>>])
              ELSE e1
    IN onSuccess(stopStreaming(e2), m)

\* a plausible slip: the best similarity survives the server's restart
verification_restartedKeepBest(e) ==
    LET e1 == setMetrics(e, [e.metrics.cells EXCEPT
                                !.framesCollected = 0,
                                !.framesSent = 0,
                                !.qualityScore = <<>>])
    IN setState(e1, [e1.st EXCEPT !.error = FALSE])

\* case 'verification_restarted': the cells of the attempt go back to their
\* defaults (networkLatency is not among them)
verification_restarted(e) ==
    LET e1 == setMetrics(e, [e.metrics.cells EXCEPT
                                !.framesCollected = 0,
                                !.framesSent = 0,
                                !.qualityScore = <<>>,
                                !.maxSimilarity = <<>>])
    IN setState(e1, [e1.st EXCEPT !.error = FALSE])

onmessage(e, s, m) ==
    CASE m.type = "connected" ->
            startFrameCapture(setState(e, [e.st EXCEPT !.isStreaming = TRUE]))
      [] m.type = "frame_processed" ->
            IF m.success
            THEN frame_processed(setState(e, [e.st EXCEPT !.error = FALSE]),
                                 s, m)
            ELSE e
      [] m.type = "spoofing_detected" ->
            setCanRetry(setState(e, [e.st EXCEPT !.error = TRUE]), m)
      [] m.type = "complete" -> complete(e, m)
      [] m.type = "verification_restarted" -> verification_restarted(e)
      [] m.type = "error" ->
            onError(setCanRetry(setState(e, [e.st EXCEPT !.error = TRUE]), m))
      [] m.type = "timeout_warning" ->
            setCanRetry(setState(e, [e.st EXCEPT !.error = TRUE]), m)
      [] m \in Undecodable -> [e EXCEPT !.fx.decode = TRUE]

\* ------------------------------------------------------------ user
\* handleStart up to its await: the call is parked with its render's closure
\* (origin tells a press of Start from the handleStart of handleRestart)
handleStart(e) ==
    [e EXCEPT !.pendingStarts =
                  Append(@, [cSuccess |-> e.st.success,
                             cRetryCount |-> e.st.retryCount,
                             cMaxSimilarity |->
                                 e.metrics.cells.maxSimilarity,
                             origin |-> "start"])]

\* startVideoStream resolved and the rest of handleStart: ok says that one of
\* the constraint sets was accepted, otherwise the last getUserMedia rejected
startVideoStream(e, i, ok) ==
    LET c == e.pendingStarts[i]
        e1 == [e EXCEPT !.pendingStarts =
                   SubSeq(@, 1, i - 1) \o SubSeq(@, i + 1, Len(@))]
    IN IF ok
       THEN LET e2 == [e1 EXCEPT
                         !.leakedStreams = IF e.streamRef THEN @ + 1 ELSE @,
                         !.streamRef = TRUE,
                         !.videoSrc = IF e.mounted THEN "live" ELSE @,
                         !.fx.acquired = c.origin]
            IN connectWebSocket(e2, c)
       ELSE [onError(setState(e1, [e1.st EXCEPT !.error = TRUE]))
                EXCEPT !.fx.cameraFailed = TRUE]

handleStop(e) == stopStreaming(e)

\* a plausible slip: the restart forgets the metric cells
handleRestartKeepMetrics(e) ==
    LET e1 == IF /\ e.kind = "verification"
                 /\ e.wsRef # 0
                 /\ e.sockets[e.wsRef].readyState = "OPEN"
              THEN wsSend(e, e.wsRef, "restart_verification")
              ELSE e
        e2 == setState(e1, [e1.st EXCEPT !.success = FALSE,
                                         !.error = FALSE,
                                         !.verificationResult = Null,
                                         !.retryCount = 0,
                                         !.canRetry = TRUE])
    IN IF e.kind = "registration" \/ ~e.st.isConnected
       THEN [handleStart(e) EXCEPT
                !.st = e2.st, !.fx = e2.fx,
                !.pendingStarts[Len(e.pendingStarts) + 1].origin = "restart"]
       ELSE e2

handleRestart(e) ==
    LET e1 == IF /\ e.kind = "verification"
                 /\ e.wsRef # 0
                 /\ e.sockets[e.wsRef].readyState = "OPEN"
              THEN wsSend(e, e.wsRef, "restart_verification")
              ELSE e
        e2 == setState(e1, [e1.st EXCEPT !.success = FALSE,
                                         !.error = FALSE,
                                         !.verificationResult = Null,
                                         !.retryCount = 0,
                                         !.canRetry = TRUE])
        e3 == setMetrics(e2, DefaultMetrics)
    IN IF e.kind = "registration" \/ ~e.st.isConnected
       THEN [handleStart(e) EXCEPT
                !.st = e3.st, !.metrics = e3.metrics, !.fx = e3.fx,
                !.pendingStarts[Len(e.pendingStarts) + 1].origin = "restart"]
       ELSE e3

\* the buttons that are rendered and enabled
CanStart ==
    clicks < MaxClicks /\ mounted /\ ~st.isStreaming /\ ~st.success
    /\ st.connectionState # "connecting"

CanStop == clicks < MaxClicks /\ mounted /\ st.isStreaming

CanRestart ==
    /\ clicks < MaxClicks
    /\ mounted
    /\ IF kind = "verification"
       THEN \/ st.isStreaming /\ st.canRetry
            \/ st.success
            \/ st.error /\ st.canRetry
       ELSE \/ st.isStreaming
            \/ st.success
            \/ /\ st.connectionState = "disconnected"
               /\ st.retryCount >= MAX_RETRIES
               /\ ~st.success

\* ------------------------------------------------------------ actions
HandleStart ==
    /\ CanStart
    /\ Len(pendingStarts) < MaxPendingStarts
    /\ Commit([handleStart(Env) EXCEPT
                  !.clicks = @ + 1, !.hist = NoHistory])

AcquireCamera ==
    \E i \in 1..Len(pendingStarts), ok \in BOOLEAN :
        /\ ok => FreeSlots(Env) # {}
        /\ (ok /\ streamRef) => leakedStreams < MaxLeakedStreams
        /\ Commit(startVideoStream(Env, i, ok))

HandleStop ==
    /\ CanStop
    /\ Commit([handleStop(Env) EXCEPT
                  !.clicks = @ + 1, !.fx.stop = TRUE, !.fx.ws = wsRef,
                  !.hist.stopped = (pendingStarts = <<>>)])

HandleRestart ==
    /\ CanRestart
    /\ (kind = "registration" \/ ~st.isConnected)
           => Len(pendingStarts) < MaxPendingStarts
    /\ Commit([handleRestart(Env) EXCEPT
                  !.clicks = @ + 1, !.hist = NoHistory,
                  !.fx.restart = <<[retryCount |-> st.retryCount,
                                    cells |-> metrics.cells]>>])

\* the cleanup of useEffect: stopStreaming on unmount
Unmount ==
    /\ mounted
    /\ Commit([stopStreaming(Env) EXCEPT
                  !.mounted = FALSE, !.st = InitialState, !.videoSrc = "none",
                  !.metrics.cells = DefaultMetrics,
                  !.clicks = 0, !.fx.stop = TRUE, !.fx.ws = wsRef,
                  !.hist.stopped = (pendingStarts = <<>>)])

CaptureTick ==
    /\ captureTimers > 0
    /\ metrics.cells.framesSent < MaxFramesSent
    /\ \E hasFrame \in BOOLEAN :
          Commit([captureAndSendFrame(Env, hasFrame)
                     EXCEPT !.fx.timer = "capture"])

HeartbeatTick ==
    /\ heartbeatTimers > 0
    /\ LET e == IF wsRef # 0 /\ sockets[wsRef].readyState = "OPEN"
                THEN wsSend(Env, wsRef, "ping")
                ELSE Env
       IN Commit([e EXCEPT !.fx.timer = "heartbeat"])

ConnectionTimeout ==
    \E s \in SockIds :
        /\ sockets[s].connectionTimeout
        /\ Commit(connectionTimeout(Env, s))

Reconnect ==
    \E t \in reconnectTimers :
        /\ FreeSlots(Env) # {}
        /\ st.retryCount < MaxRetryCount
        /\ Commit(reconnect(Env, t))

WsOpen ==
    \E s \in SockIds :
        /\ sockets[s].readyState = "CONNECTING"
        /\ Commit(onopen(Env, s))

WsMessage ==
    \E s \in SockIds :
        /\ sockets[s].readyState = "OPEN"
        /\ \E m \in Messages(kind) :
              /\ m \in FrameReplies(kind) => sockets[s].gotFrame
              /\ Commit([onmessage(Env, s, m) EXCEPT
                            !.fx.message = m.type,
                            !.fx.found =
                                IF m.type = "verification_restarted"
                                THEN <<metrics.cells>> ELSE @,
                            !.fx.completion =
                                IF m.type = "complete" THEN m ELSE @,
                            !.hist.stopped =
                                IF m.type = "complete"
                                THEN pendingStarts = <<>> ELSE @])

\* The close event of socket s. A connection that failed fires the error
\* event and then the close event, code 1006, in one task.
WsClose ==
    \E s \in SockIds :
        /\ sockets[s].readyState \in {"CONNECTING", "OPEN", "CLOSING"}
        /\ \E code \in (CASE sockets[s].readyState = "CONNECTING" ->
                                 ConnectFailCodes
                          [] sockets[s].readyState = "OPEN" -> CloseCodes
                          [] OTHER -> ClientCloseCodes) :
              /\ retries(Env, s, code) => FreeTimers(Env) # {}
              /\ \/ Commit(onclose(Env, s, code))
                 \/ /\ code \in ConnectFailCodes
                    /\ Commit(onclose(onerror(Env, s), s, code))

Next ==
    \/ HandleStart
    \/ AcquireCamera
    \/ HandleStop
    \/ HandleRestart
    \/ Unmount
    \/ CaptureTick
    \/ HeartbeatTick
    \/ ConnectionTimeout
    \/ Reconnect
    \/ WsOpen
    \/ WsMessage
    \/ WsClose

Spec == Init /\ [][Next]_vars

\* ------------------------------------------------------------ metrics
\* a 'pong' on an open socket, handled at time now (it touches the latency
\* cell alone, so only the runs that follow that cell take the step)
WsPong ==
    \E s \in SockIds :
        /\ sockets[s].readyState = "OPEN"
        /\ "networkLatency" \in metrics.observed
        /\ \E now \in 1..MaxTime, timestamp \in 0..(MaxTime + 1) :
              Commit([pong(Env, timestamp, now) EXCEPT
                         !.fx.message = "pong",
                         !.fx.pong = <<[timestamp |-> timestamp,
                                        now |-> now]>>])

\* the component with its displayed metrics followed
MetricsInit ==
    /\ kind \in Kinds
    /\ mounted = TRUE
    /\ st = InitialState
    /\ wsRef = 0
    /\ streamRef = FALSE
    /\ leakedStreams = 0
    /\ videoSrc = "none"
    /\ intervalRef = FALSE
    /\ captureTimers = 0
    /\ heartbeatRef = FALSE
    /\ heartbeatTimers = 0
    /\ reconnectTimeoutRef = 0
    /\ reconnectTimers = {}
    /\ sockets = [s \in SockIds |-> ClosedSocket]
    /\ pendingStarts = <<>>
    /\ clicks = 0
    /\ \E g \in MetricGroups :
          \* the registration component has no maxSimilarity cell
          /\ kind = "registration" => "maxSimilarity" \notin g
          /\ metrics = [observed |-> g, cells |-> DefaultMetrics]
    /\ hist = NoHistory
    /\ last = NoEffects

\* MetricsSpec follows the runs with one transport and one reconnect timeout
\* at a time, no stream left behind and at most MaxMetricsRetries reconnects
\* in a row
OneSession ==
    /\ leakedStreams = 0
    /\ Cardinality(SockIds \ FreeSlots(Env)) <= MaxMetricsSockets
    /\ Cardinality(reconnectTimers) <= MaxMetricsSockets
    /\ st.retryCount <= MaxMetricsRetries

MetricsNext ==
    \/ HandleStart /\ OneSession'
    \/ AcquireCamera /\ OneSession'
    \/ HandleStop /\ OneSession'
    \/ HandleRestart /\ OneSession'
    \/ Unmount /\ OneSession'
    \/ CaptureTick /\ OneSession'
    \/ HeartbeatTick /\ OneSession'
    \/ ConnectionTimeout /\ OneSession'
    \/ Reconnect /\ OneSession'
    \/ WsOpen /\ OneSession'
    \/ WsMessage /\ OneSession'
    \/ WsClose /\ OneSession'
    \/ WsPong /\ OneSession'

MetricsSpec == MetricsInit /\ [][MetricsNext]_vars

\* ------------------------------------------------------------ older variants
\* The two older registration components that the repository still carries:
\* "optimized" is OptimizedFaceRegistration (unnamed/part_003), "basic" the
\* first RealTimeFaceRegistration (unnamed/part_004). Neither has a
\* heartbeat or a reconnect; they share the variables of the model (basic
\* has no connectionState cell: the model's is written but never read).
LegacyKinds == {"optimized", "basic"}

LegacyInit ==
    /\ kind \in LegacyKinds
    /\ mounted = TRUE
    /\ st = InitialState
    /\ wsRef = 0
    /\ streamRef = FALSE
    /\ leakedStreams = 0
    /\ videoSrc = "none"
    /\ intervalRef = FALSE
    /\ captureTimers = 0
    /\ heartbeatRef = FALSE
    /\ heartbeatTimers = 0
    /\ reconnectTimeoutRef = 0
    /\ reconnectTimers = {}
    /\ sockets = [s \in SockIds |-> ClosedSocket]
    /\ pendingStarts = <<>>
    /\ clicks = 0
    /\ metrics = [observed |-> {}, cells |-> DefaultMetrics]
    /\ hist = NoHistory
    /\ last = NoEffects

\* stopStreaming. optimized: try { send(stop); close() } catch {}. basic: the
\* send is not guarded, so on a CONNECTING socket the exception leaves
\* stopStreaming before wsRef is cleared and the stream released
stopStreamingLegacy(e) ==
    LET e1 == clearInterval(e)
        sent == IF e.wsRef # 0 THEN wsSend(e1, e.wsRef, "stop") ELSE e1
    IN IF sent.fx.threw /\ e.kind = "basic"
       THEN [sent EXCEPT !.fx.raised = TRUE]
       ELSE LET e2 == IF e.wsRef = 0 THEN sent
                      ELSE [(IF sent.fx.threw THEN sent
                             ELSE wsClose(sent, e.wsRef, 0))
                               EXCEPT !.wsRef = 0]
                e3 == releaseStream(e2)
            IN setState(e3, [e3.st EXCEPT
                                !.isStreaming = FALSE,
                                !.isConnected = FALSE,
                                !.connectionState = "disconnected"])

\* new WebSocket and its handlers. optimized: connectWebSocket, which closes
\* wsRef.current first and arms a connect timeout. basic: the second half of
\* startVideoStream, which does neither
connectWebSocketLegacy(e) ==
    LET e1 == IF e.kind = "optimized" /\ e.wsRef # 0
              THEN wsClose(e, e.wsRef, 0) ELSE e
        e2 == IF e.kind = "optimized"
              THEN setState(e1, [e1.st EXCEPT
                                    !.connectionState = "connecting",
                                    !.error = FALSE])
              ELSE e1
        n == FreeSlot(e)
    IN [e2 EXCEPT !.sockets[n] =
                      [ClosedSocket EXCEPT
                          !.readyState = "CONNECTING",
                          !.connectionTimeout = (e.kind = "optimized")],
                  !.wsRef = n,
                  !.fx.created = n]

onopenLegacy(e, s) ==
    LET e1 == [e EXCEPT !.sockets[s].readyState = "OPEN",
                        !.sockets[s].connectionTimeout = FALSE]
    IN setState(e1, [e1.st EXCEPT !.isConnected = TRUE,
                                  !.connectionState = "connected"])

\* optimized: sets the error. basic: sets the error and calls onError
onerrorLegacy(e, s) ==
    LET e1 == [e EXCEPT !.sockets[s].connectionTimeout = FALSE]
        e2 == setState(e1, [e1.st EXCEPT !.error = TRUE,
                                         !.connectionState = "disconnected"])
    IN IF e.kind = "basic" THEN onError(e2) ELSE e2

oncloseLegacy(e, s, code) ==
    LET e1 == [e EXCEPT !.sockets[s] = ClosedSocket, !.fx.code = code]
        e2 == setState(e1, [e1.st EXCEPT !.isConnected = FALSE,
                                         !.isStreaming = FALSE,
                                         !.connectionState = "disconnected"])
    IN IF e.kind = "basic" /\ code = 4004
       THEN setState(e2, [e2.st EXCEPT !.error = TRUE])
       ELSE e2

LegacyFrameReplies(k) ==
    {[type |-> "frame_processed", success |-> b] : b \in BOOLEAN}
    \cup {[type |-> "complete", verified |-> TRUE, similarity_score |-> 0]}
    \cup (IF k = "basic" THEN {[type |-> "spoofing_detected"]} ELSE {})

LegacyMessages(k) ==
    {[type |-> "connected"], [type |-> "error"]}
    \cup Undecodable
    \cup LegacyFrameReplies(k)

\* case 'registration_complete'
completeLegacy(e, m) ==
    LET e1 == setState(e, [e.st EXCEPT !.success = TRUE,
                                       !.verificationResult = m])
        e2 == stopStreamingLegacy(e1)
    IN IF e2.fx.raised THEN e2 ELSE onSuccess(e2, m)

\* ws.onmessage. optimized: JSON.parse and the switch are inside try/catch.
\* basic: they are not, so a payload that is not JSON raises out of the
\* handler. Neither switch has a default case
onmessageLegacy(e, s, m) ==
    CASE m.type = "malformed" ->
            [e EXCEPT !.fx.decode = TRUE, !.fx.raised = (e.kind = "basic")]
      [] m.type = "unknown" -> [e EXCEPT !.fx.decode = TRUE]
      [] m.type = "connected" ->
            startFrameCapture(setState(e, [e.st EXCEPT !.isStreaming = TRUE]))
      [] m.type = "frame_processed" ->
            IF m.success
            THEN setState(e, [e.st EXCEPT !.error = FALSE])
            ELSE e
      [] m.type = "spoofing_detected" ->
            setState(e, [e.st EXCEPT !.error = TRUE])
      [] m.type = "complete" -> completeLegacy(e, m)
      [] m.type = "error" ->
            onError(setState(e, [e.st EXCEPT !.error = TRUE]))

\* getUserMedia settled. optimized: startVideoStream and the rest of
\* handleStart; a rejection only sets the error. basic: startVideoStream,
\* whose catch also calls onError('Camera access failed')
startVideoStreamLegacy(e, i, ok) ==
    LET c == e.pendingStarts[i]
        e1 == [e EXCEPT !.pendingStarts =
                   SubSeq(@, 1, i - 1) \o SubSeq(@, i + 1, Len(@))]
    IN IF ok
       THEN connectWebSocketLegacy(
                [e1 EXCEPT
                    !.leakedStreams = IF e.streamRef THEN @ + 1 ELSE @,
                    !.streamRef = TRUE,
                    !.videoSrc = IF e.mounted THEN "live" ELSE @,
                    !.fx.acquired = c.origin])
       ELSE LET e2 == [setState(e1, [e1.st EXCEPT !.error = TRUE])
                          EXCEPT !.fx.cameraFailed = TRUE]
            IN IF e.kind = "basic" THEN onError(e2) ELSE e2

handleRestartLegacy(e) ==
    LET e1 == setState(e, [e.st EXCEPT !.success = FALSE,
                                       !.error = FALSE,
                                       !.verificationResult = Null])
    IN [handleStart(e) EXCEPT
           !.st = e1.st,
           !.pendingStarts[Len(e.pendingStarts) + 1].origin = "restart"]

LegacyStart ==
    /\ clicks < MaxClicks
    /\ mounted
    /\ ~st.isStreaming
    /\ ~st.success
    /\ kind = "optimized" => st.connectionState # "connecting"
    /\ Len(pendingStarts) < MaxPendingStarts
    /\ Commit([handleStart(Env) EXCEPT !.clicks = @ + 1])

LegacyAcquireCamera ==
    \E i \in 1..Len(pendingStarts), ok \in BOOLEAN :
        /\ ok => FreeSlots(Env) # {}
        /\ (ok /\ streamRef) => leakedStreams < MaxLeakedStreams
        /\ Commit(startVideoStreamLegacy(Env, i, ok))

LegacyStop ==
    /\ clicks < MaxClicks
    /\ mounted
    /\ st.isStreaming
    /\ Commit([stopStreamingLegacy(Env) EXCEPT
                  !.clicks = @ + 1, !.fx.stop = TRUE, !.fx.ws = wsRef])

LegacyRestart ==
    /\ clicks < MaxClicks
    /\ mounted
    /\ st.success \/ (kind = "optimized" /\ st.isStreaming)
    /\ Len(pendingStarts) < MaxPendingStarts
    /\ Commit([handleRestartLegacy(Env) EXCEPT !.clicks = @ + 1])

LegacyUnmount ==
    /\ mounted
    /\ Commit([stopStreamingLegacy(Env) EXCEPT
                  !.mounted = FALSE, !.st = InitialState, !.videoSrc = "none",
                  !.clicks = 0, !.fx.stop = TRUE, !.fx.ws = wsRef])

LegacyOpen ==
    \E s \in SockIds :
        /\ sockets[s].readyState = "CONNECTING"
        /\ Commit(onopenLegacy(Env, s))

LegacyMessage ==
    \E s \in SockIds :
        /\ sockets[s].readyState = "OPEN"
        /\ \E m \in LegacyMessages(kind) :
              /\ m \in LegacyFrameReplies(kind) => sockets[s].gotFrame
              /\ Commit([onmessageLegacy(Env, s, m) EXCEPT
                            !.fx.completion =
                                IF m.type = "complete" THEN m ELSE @])

LegacyClose ==
    \E s \in SockIds :
        /\ sockets[s].readyState \in {"CONNECTING", "OPEN", "CLOSING"}
        /\ \E code \in (CASE sockets[s].readyState = "CONNECTING" ->
                                 ConnectFailCodes
                          [] sockets[s].readyState = "OPEN" -> CloseCodes
                          [] OTHER -> ClientCloseCodes) :
              \/ Commit(oncloseLegacy(Env, s, code))
              \/ /\ code \in ConnectFailCodes
                 /\ Commit(oncloseLegacy(onerrorLegacy(Env, s), s, code))

LegacyNext ==
    \/ LegacyStart
    \/ LegacyAcquireCamera
    \/ LegacyStop
    \/ LegacyRestart
    \/ LegacyUnmount
    \/ CaptureTick
    \/ ConnectionTimeout
    \/ LegacyOpen
    \/ LegacyMessage
    \/ LegacyClose

LegacySpec == LegacyInit /\ [][LegacyNext]_vars

\* ------------------------------------------------------------ failure
\* The component against a server that never completes a handshake: a socket
\* may open, but no message arrives on it and its connection ends with a
\* transient close (1006). Timers fire, getUserMedia answers and every
\* socket is eventually closed (weak fairness); the user is free.

\* the callback of a reconnect timeout; retryCount is not counted beyond
\* MaxRetryCount, which is above MAX_RETRIES, the only value it is compared
\* with
FailureReconnect ==
    \E t \in reconnectTimers :
        /\ FreeSlots(Env) # {}
        /\ LET e == reconnect(Env, t)
           IN Commit([e EXCEPT !.st.retryCount = Min(@, MaxRetryCount)])

\* the close event of a connection that failed or was lost
TransientClose ==
    \E s \in SockIds, code \in ConnectFailCodes :
        /\ sockets[s].readyState \in {"CONNECTING", "OPEN", "CLOSING"}
        /\ retries(Env, s, code) => FreeTimers(Env) # {}
        /\ \/ Commit(onclose(Env, s, code))
           \/ Commit(onclose(onerror(Env, s), s, code))

FailureNext ==
    \/ HandleStart
    \/ AcquireCamera
    \/ HandleRestart
    \/ Unmount
    \/ HeartbeatTick
    \/ ConnectionTimeout
    \/ FailureReconnect
    \/ WsOpen
    \/ TransientClose

FailureSpec ==
    /\ Init
    /\ [][FailureNext]_vars
    /\ WF_vars(AcquireCamera)
    /\ WF_vars(HeartbeatTick)
    /\ WF_vars(ConnectionTimeout)
    /\ WF_vars(FailureReconnect)
    /\ WF_vars(TransientClose)

\* ------------------------------------------------------------ properties
\* C1: once stopStreaming has returned (from handleStop, the unmount cleanup
\* or a completion, with no handleStart still awaiting the camera), no step
\* sends a 'frame' or a 'ping' and no capture, heartbeat, connect-timeout or
\* reconnect timer callback runs.
NoSendAfterTeardown ==
    hist.stopped =>
        /\ last.sent \cap {"frame", "ping"} = {}
        /\ last.timer = "none"

\* C2: once stopStreaming has returned, no step creates a new WebSocket,
\* also not after the close event of its own close(1000) was delivered.
StopShortCircuitsRetries ==
    hist.stopped => last.created = 0

\* C3: from one start (or restart) to the next, props.onSuccess and
\* props.onError are called at most once in total.
SingleTerminalSignal ==
    hist.signals <= 1

\* C4: the retryCount state never exceeds MAX_RETRIES, however many closes
\* with a transient code follow one another without a handshake.
BoundedRetries ==
    st.retryCount <= MAX_RETRIES

\* C5: the step that delivers a close event with a terminal code (4004, and
\* 4003 in the verification component) arms no reconnect timeout, creates no
\* WebSocket, and leaves the pending reconnect timeouts and retryCount as
\* they were, whatever success and retryCount are.
NoRetryOnTerminalCode ==
    [][last'.code \in TerminalCodes(kind) =>
          /\ ~last'.scheduled
          /\ last'.created = 0
          /\ reconnectTimers' = reconnectTimers
          /\ reconnectTimeoutRef' = reconnectTimeoutRef
          /\ st'.retryCount = st.retryCount]_vars

\* C5, its case: a terminal close was delivered while the component showed
\* no success and retries remained, so the retry branch was there to take.
TerminalCloseWhileRetriesRemain ==
    /\ last.code \in TerminalCodes(kind)
    /\ mounted
    /\ ~st.success
    /\ st.retryCount < MAX_RETRIES
    /\ st.error
    /\ st.connectionState = "disconnected"

\* C6: a stop() called when stopStreaming has already returned in this
\* session (a stop or a completion) sends no 'stop', closes no transport and
\* releases no stream. (It never raises: stopStreaming catches what send()
\* throws.)
IdempotentStop ==
    [][(hist.stopped /\ last'.stop) =>
          /\ "stop" \notin last'.sent
          /\ last'.closed = {}
          /\ last'.released = 0]_vars

\* C7: when stop() ran with a socket in wsRef, afterwards no capture,
\* heartbeat or reconnect timer is armed, that socket's connect timeout is
\* cancelled, the socket is closing (or closed), the stream is released, and
\* 'stop' was sent only on a socket that was open.
StopTearsDownEverything ==
    (last.stop /\ last.ws # 0) =>
        /\ captureTimers = 0
        /\ heartbeatTimers = 0
        /\ reconnectTimers = {}
        /\ ~sockets[last.ws].connectionTimeout
        /\ sockets[last.ws].readyState \in {"CLOSING", "CLOSED"}
        /\ ~streamRef
        /\ ("stop" \in last.sent => <<last.ws, 1000>> \in last.closed)

\* C8: the step that handles a completion message leaves no capture and no
\* heartbeat timer armed, closes the transport with 1000 and calls onSuccess;
\* and while the component shows the result (success set, no start or
\* restart since) no step sends a 'frame'.
CompletionEndsStreaming ==
    /\ (last.completion # Null =>
          /\ captureTimers = 0
          /\ heartbeatTimers = 0
          /\ \E s \in SockIds : <<s, 1000>> \in last.closed
          /\ last.onSuccess = <<last.completion>>)
    /\ ((hist.stopped /\ mounted /\ st.success) => "frame" \notin last.sent)

\* C9: while the component shows the result of a completion (success set, no
\* start or restart since) no step arms a reconnect timeout, creates a
\* WebSocket or re-arms the heartbeat.
CompletionIsTerminal ==
    (hist.stopped /\ mounted /\ st.success) =>
        /\ ~last.scheduled
        /\ last.created = 0
        /\ heartbeatTimers = 0

\* C10: the step that handles a completion message with verified = false
\* calls onSuccess exactly once, with that message (its similarity_score
\* included), calls onError not at all, and leaves the component showing a
\* result that is not verified, with streaming torn down.
RejectedCompletionDelivered ==
    (last.completion # Null /\ ~last.completion.verified) =>
        /\ Len(last.onSuccess) = 1
        /\ last.onSuccess[1].similarity_score
               = last.completion.similarity_score
        /\ last.onSuccess[1].verified = FALSE
        /\ last.onError = 0
        /\ wsRef = 0 /\ captureTimers = 0 /\ heartbeatTimers = 0
        /\ ~streamRef
        /\ (mounted =>
              /\ st.success
              /\ st.verificationResult = last.completion
              /\ ~st.isStreaming
              /\ st.connectionState = "disconnected")

\* C10, its case: a rejected verification (score 40) was just handled in a
\* mounted component.
RejectedCompletionHandled ==
    /\ last.completion # Null
    /\ ~last.completion.verified
    /\ last.completion.similarity_score = 40
    /\ mounted
    /\ "stop" \in last.sent

\* C11: when handleRestart has run, retryCount is 0 and every metric cell
\* (framesSent, framesCollected, qualityScore, maxSimilarity, networkLatency)
\* holds its default, whatever they held before.
RestartResetsMetrics ==
    last.restart # <<>> =>
        /\ st.retryCount = 0
        /\ metrics.cells = DefaultMetrics

\* C11, its case: handleRestart ran when retries had been counted and a
\* metric cell was off its default.
RestartFoundUsedMetrics ==
    /\ last.restart # <<>>
    /\ last.restart[1].retryCount > 0
    /\ last.restart[1].cells # DefaultMetrics

\* C12: when a 'pong' carrying a timestamp has been handled at local time
\* now, the networkLatency cell holds max(0, now - timestamp): never a
\* negative number, also when the timestamp is ahead of the local clock.
LatencyClamped ==
    (/\ last.pong # <<>>
     /\ last.pong[1].timestamp # 0
     /\ mounted
     /\ "networkLatency" \in metrics.observed) =>
        metrics.cells.networkLatency =
            <<Max(0, last.pong[1].now - last.pong[1].timestamp)>>

\* C14: a handleStart from the Start button acquires a stream and creates a
\* WebSocket only if, until then, the component had no socket connecting or
\* open and no reconnect pending.
NoSecondStart ==
    [][last'.acquired = "start" =>
          /\ reconnectTimers = {}
          /\ \A s \in SockIds :
                 sockets[s].readyState \notin {"CONNECTING", "OPEN"}]_vars

\* C15: in every reachable state at most one WebSocket the component created
\* is CONNECTING or OPEN.
OneLiveSocket ==
    Cardinality({s \in SockIds :
                    sockets[s].readyState \in {"CONNECTING", "OPEN"}}) <= 1

\* C16: when a socket opens (no 'connected' can have arrived on it yet)
\* neither the capture nor the heartbeat interval is armed afterwards, and
\* when the close event of the current socket is delivered both are disarmed
\* afterwards.
TimersOnlyAfterHandshake ==
    [][\A s \in SockIds :
          /\ (/\ sockets[s].readyState = "CONNECTING"
              /\ sockets'[s].readyState = "OPEN") =>
                 (captureTimers' = 0 /\ heartbeatTimers' = 0)
          /\ (/\ s = wsRef
              /\ sockets[s].readyState # "CLOSED"
              /\ sockets'[s].readyState = "CLOSED") =>
                 (captureTimers' = 0 /\ heartbeatTimers' = 0)]_vars

\* C17: the connect timeout of a socket covers the time until 'connected'
\* arrives: when the socket opens (no 'connected' can have arrived yet) its
\* connect timeout is still pending, so that it can close the transport if
\* the handshake does not come.
ConnectTimeoutCoversHandshake ==
    [][\A s \in SockIds :
          (/\ sockets[s].readyState = "CONNECTING"
           /\ sockets'[s].readyState = "OPEN") =>
              sockets'[s].connectionTimeout]_vars

\* C18: a capture tick that finds wsRef empty or its socket not OPEN sends
\* nothing and leaves every variable of the component as it was (nothing is
\* kept for later), and framesSent grows only by one and only in a step
\* that handed a 'frame' to an open socket.
FramesNeverBuffered ==
    [][/\ (/\ last'.timer = "capture"
           /\ (wsRef = 0 \/ sockets[wsRef].readyState # "OPEN")) =>
              /\ last'.sent = {}
              /\ UNCHANGED <<kind, mounted, st, wsRef, streamRef,
                             leakedStreams, videoSrc, intervalRef,
                             captureTimers, heartbeatRef, heartbeatTimers,
                             reconnectTimeoutRef, reconnectTimers, sockets,
                             pendingStarts, clicks, metrics, hist>>
       /\ (metrics'.cells.framesSent > metrics.cells.framesSent) =>
              /\ metrics'.cells.framesSent = metrics.cells.framesSent + 1
              /\ "frame" \in last'.sent
              /\ wsRef # 0
              /\ sockets[wsRef].readyState = "OPEN"]_vars

\* C18, its case: after a frame was counted, a capture tick found the
\* current socket still connecting and dropped its frame.
FrameDroppedWhileConnecting ==
    /\ last.timer = "capture"
    /\ wsRef # 0
    /\ sockets[wsRef].readyState = "CONNECTING"
    /\ mounted
    /\ videoSrc = "live"
    /\ metrics.cells.framesSent > 0

\* C20: the step that delivers a close event with a terminal code to the
\* mounted component, in a session that was not stopped, calls props.onError.
FatalCloseReachesCaller ==
    (/\ last.code \in TerminalCodes(kind)
     /\ mounted
     /\ ~hist.stopped) =>
        last.onError > 0

\* C13: the step in which getUserMedia is rejected calls props.onError
\* exactly once and creates no WebSocket.
CameraFailureReported ==
    last.cameraFailed =>
        /\ last.onError = 1
        /\ last.created = 0

\* C19: the step that delivers to onmessage a payload that is not JSON, or
\* one of a type no case matches, lets no exception out of the handler and
\* changes no variable of the component.
DecodeErrorsAbsorbed ==
    [][last'.decode =>
          /\ ~last'.raised
          /\ UNCHANGED <<kind, mounted, st, wsRef, streamRef, leakedStreams,
                         videoSrc, intervalRef, captureTimers, heartbeatRef,
                         heartbeatTimers, reconnectTimeoutRef,
                         reconnectTimers, sockets, pendingStarts, clicks,
                         metrics, hist>>]_vars

\* C21: an inbound 'error' that says it cannot be retried ends the session:
\* once onmessage has handled it, the capture interval and the heartbeat
\* interval are disarmed (so that no frame follows and nothing is retried).
FatalErrorIsTerminal ==
    (/\ last.message = "error"
     /\ kind = "verification"
     /\ mounted
     /\ ~st.canRetry)
    => (captureTimers = 0 /\ heartbeatTimers = 0)

\* C22: the handleStart of a handleRestart acquires a stream and creates a
\* WebSocket only if, until then, the component had no socket connecting or
\* open (handshaking or streaming).
RestartOnlyWhenIdle ==
    [][last'.acquired = "restart" =>
          \A s \in SockIds :
              sockets[s].readyState \notin {"CONNECTING", "OPEN"}]_vars

\* C23: when the session that collected two frames lost its socket and the
\* reconnect timeout opened a new one, the 'connected' of the new socket
\* puts framesCollected back to 0 and leaves retryCount at 1.
HandshakeAfterReconnect ==
    [][(/\ last'.message = "connected"
        /\ ~st.isStreaming
        /\ clicks = 1
        /\ metrics.cells.framesCollected = 2)
       => (metrics'.cells.framesCollected = 0 /\ st'.retryCount = 1)]_vars

\* C24: when onclose has scheduled a reconnect (a transient close), the
\* capture interval and the heartbeat interval are both disarmed and exactly
\* one reconnect timeout is pending.
TransientCloseDisarmsTimers ==
    last.scheduled
    => /\ captureTimers = 0
       /\ heartbeatTimers = 0
       /\ Cardinality(reconnectTimers) = 1

\* C25: while the component is mounted, retryCount goes back to 0 from a
\* positive value only in the step that handles 'connected' or in
\* handleRestart; the open event alone does not reset it.
AttemptsResetOnlyByHandshake ==
    [][(mounted' /\ st.retryCount > 0 /\ st'.retryCount = 0)
       => (last'.message = "connected" \/ last'.restart # <<>>)]_vars

\* C26: the step that handles 'frame_processed', 'spoofing_detected',
\* 'timeout_warning' or 'pong' changes neither the connection state, nor a
\* socket, nor the stream, nor a capture, heartbeat, connect or reconnect
\* timer, nor retryCount: it only writes the error, canRetry and metric cells.
AdvisoryEventsOnlyInform ==
    [][last'.message \in {"frame_processed", "spoofing_detected",
                          "timeout_warning", "pong"}
       => /\ UNCHANGED <<wsRef, sockets, streamRef, leakedStreams, videoSrc,
                         intervalRef, captureTimers, heartbeatRef,
                         heartbeatTimers, reconnectTimeoutRef,
                         reconnectTimers, pendingStarts, mounted>>
          /\ st'.connectionState = st.connectionState
          /\ st'.isConnected = st.isConnected
          /\ st'.isStreaming = st.isStreaming
          /\ st'.success = st.success
          /\ st'.retryCount = st.retryCount
          /\ last'.sent = {} /\ last'.closed = {} /\ ~last'.scheduled
          /\ last'.onError = 0 /\ last'.onSuccess = <<>>]_vars

\* a 'spoofing_detected' or 'timeout_warning' that forbids the retry was
\* handled while the session streams with both intervals armed
AdvisoryEventWhileStreaming ==
    /\ last.message \in {"spoofing_detected", "timeout_warning"}
    /\ kind = "verification"
    /\ ~st.canRetry
    /\ st.isStreaming
    /\ captureTimers = 1
    /\ heartbeatTimers = 1

\* C27: the step that handles 'verification_restarted' puts framesCollected,
\* framesSent, qualityScore and maxSimilarity back to their defaults and
\* leaves the sockets, the capture and heartbeat intervals, the reconnect
\* timeouts and retryCount as they were.
ServerRestartResetsMetrics ==
    [][(last'.message = "verification_restarted" /\ mounted)
       => /\ \A k \in {"framesCollected", "framesSent", "qualityScore",
                        "maxSimilarity"} :
                 metrics'.cells[k] = DefaultMetrics[k]
          /\ UNCHANGED <<wsRef, sockets, streamRef, intervalRef,
                         captureTimers, heartbeatRef, heartbeatTimers,
                         reconnectTimeoutRef, reconnectTimers>>
          /\ st'.retryCount = st.retryCount
          /\ st'.isStreaming = st.isStreaming
          /\ st'.isConnected = st.isConnected]_vars

\* 'verification_restarted' was handled while the session streamed with
\* both intervals armed and a best similarity on display
ServerRestartWhileStreaming ==
    /\ last.message = "verification_restarted"
    /\ last.found # <<>>
    /\ last.found[1].maxSimilarity # <<>>
    /\ metrics.cells.maxSimilarity = <<>>
    /\ st.isStreaming
    /\ wsRef # 0
    /\ sockets[wsRef].readyState = "OPEN"
    /\ captureTimers = 1
    /\ heartbeatTimers = 1

\* C28: while the component is mounted, no step other than handleRestart and
\* the server's 'verification_restarted' lowers framesCollected or the best
\* similarity (maxSimilarity).
MetricsNeverDecrease ==
    [][(/\ mounted'
        /\ last'.restart = <<>>
        /\ last'.message # "verification_restarted")
       => /\ metrics'.cells.framesCollected >= metrics.cells.framesCollected
          /\ metrics.cells.maxSimilarity # <<>>
             => /\ metrics'.cells.maxSimilarity # <<>>
                /\ metrics'.cells.maxSimilarity[1]
                       >= metrics.cells.maxSimilarity[1]]_vars

\* C29: the error event decides nothing and reports nothing: onclose calls
\* no onError itself, so the task that delivers the error event and the
\* close event of a socket ends without a call of onError.
ErrorEventReportsNothing ==
    last.code # 0 => last.onError = 0

\* C30: in every reachable state at most one capture interval and at most
\* one heartbeat interval are live, and each is the one its ref holds: a
\* cleared ref leaves no interval behind to tick.
OneIntervalEach ==
    /\ captureTimers = (IF intervalRef THEN 1 ELSE 0)
    /\ heartbeatTimers = (IF heartbeatRef THEN 1 ELSE 0)

\* two sockets of the component are open at once (two open events, neither
\* closed yet) and 'connected' was just handled: one interval of each kind
SecondOpenOneHeartbeat ==
    /\ Cardinality({s \in SockIds : sockets[s].readyState = "OPEN"}) = 2
    /\ last.message = "connected"
    /\ captureTimers = 1
    /\ heartbeatTimers = 1

NoEnrollmentCodeByFlow ==
    [][last'.code = 4003
       => IF kind = "verification"
          THEN ~last'.scheduled /\ reconnectTimers' = reconnectTimers
          ELSE (~st.success /\ st.retryCount < MAX_RETRIES)
               => last'.scheduled]_vars

\* C33: no 'frame' is sent on a socket before its own 'connected'. In the
\* runs with one socket at a time isStreaming is set by the 'connected' of
\* the current socket and cleared by every close and every stop, so a frame
\* is sent only while isStreaming holds.
NoFrameBeforeHandshake ==
    [][("frame" \in last'.sent /\ mounted) => st.isStreaming]_vars

\* C35: in every reachable state at most one reconnect timeout is pending,
\* and the pending one is the one reconnectTimeoutRef holds.
OnePendingReconnect ==
    \A t \in reconnectTimers : t.id = reconnectTimeoutRef

\* C34: a stop (handleStop or the unmount cleanup) that finds every socket
\* closed, no handleStart awaiting the camera and a reconnect pending leaves
\* no reconnect timeout behind, so that nothing is left to call
\* connectWebSocket.
StopCancelsPendingReconnect ==
    [][(/\ last'.stop
        /\ reconnectTimers # {}
        /\ pendingStarts = <<>>
        /\ \A s \in SockIds : sockets[s].readyState = "CLOSED")
       => reconnectTimers' = {}]_vars

\* C36: no live MediaStream is ever left without a reference: every stream
\* that getUserMedia gave is still held in streamRef or has had its tracks
\* stopped, so at most one stream is live and a stop releases it.
NoStreamLeftBehind ==
    leakedStreams = 0

\* C37: once stopStreaming has returned (with no handleStart still awaiting
\* the camera), a message delivered to onmessage is inert: the step arms no
\* capture or heartbeat interval, changes no metric cell and calls neither
\* onSuccess nor onError.
MessagesAfterTeardownInert ==
    [][(hist.stopped /\ last'.message # "none")
       => /\ captureTimers' = captureTimers
          /\ heartbeatTimers' = heartbeatTimers
          /\ metrics' = metrics
          /\ last'.onError = 0
          /\ last'.onSuccess = <<>>]_vars

\* C38: against a server that never completes a handshake, with timers that
\* fire and sockets that close, the component, as long as it stays mounted,
\* eventually has no capture or heartbeat interval armed, no connect or
\* reconnect timeout pending and no socket that is not closed, and stays so.
SessionTerminates ==
    \/ <>(~mounted)
    \/ <>[](/\ captureTimers = 0
            /\ heartbeatTimers = 0
            /\ reconnectTimers = {}
            /\ \A s \in SockIds :
                   /\ sockets[s].readyState = "CLOSED"
                   /\ ~sockets[s].connectionTimeout)
====
